---- MODULE Spec2Model ----
(***************************************************************************)
(* A model of the PLAMS core: the JobManager (names, folders, hash cache), *)
(* the JobRunner (threads and the call gate) and the GridRunner (submit    *)
(* and poll loop).                                                         *)
(*                                                                         *)
(* Conventions.  Job objects are the numbers 1..NJobs, 0 stands for None   *)
(* wherever a job is expected.  Names are strings.  A path is the sequence *)
(* of its components, <<>> stands for None.  A directory tree is a         *)
(* function from the paths of the existing directories to the set of file  *)
(* names each one holds.  A digest is a string, "None" stands for None.    *)
(***************************************************************************)
EXTENDS Integers, Sequences, FiniteSets, TLC

\* ------------------------------------------------------------------ bounds

\* Number of job objects that can be constructed (by the caller or by load).
NJobs == 3

\* Depth of the job tree: a job, its children.
MaxDepth == 2

\* Number of jobs run with the GridRunner.
NCalls == 2

\* Largest config.saferun.repeat.
MaxRepeat == 3

\* Number of scheduler profiles in config.gridrunner.
NProfiles == 3

\* ---------------------------------------------------------------- state

VARIABLES
    \* JobManager.settings
    counter_len,                \* settings.counter_len
    jobfolder_exists,           \* settings.jobfolder_exists: "remove", "rename", "None"
    remove_empty_directories,   \* settings.remove_empty_directories
    \* JobManager
    jobs,                       \* self.jobs: sequence of jobs
    names,                      \* self.names: name -> count
    hashes,                     \* self.hashes: digest -> job
    fs,                         \* the directories on disk under the manager's path
    finished,                   \* finish() has run _clean: the manager is done
    load_ret,                   \* what load_job returned, until the next manager call
    \* Job objects
    name, path, parent, status, jobmanager, digest, results,
    \* each job's run: its position, the exception _register raised for it,
    \* and the job _check_hash returned for it
    pc, raised, prev,
    \* JobRunner
    parallel,                   \* self.parallel
    maxjobs,                    \* the constructor's maxjobs
    semaphore,                  \* self.semaphore: the free slots, or NoSemaphore
    calls,                      \* job -> number of times call ran for it
    done_at_start,              \* job -> the jobs that had completed when it was run
    \* GridRunner; a job's scheduler id is the job's number
    _active_jobs,               \* self._active_jobs: the ids with an event
    event,                      \* the ids whose threading.Event is set
    _mainlock,                  \* self._mainlock is held
    jobid,                      \* call's jobid, None until the submit is done
    retcode,                    \* what call returned for the job, NotReturned before
    ppc,                        \* the _check_queue call each job's call makes
    active_jobs,                \* _check_queue's local active_jobs
    running_jobs,               \* _check_queue's local running_jobs
    \* the scheduler
    queue,                      \* the ids its status command reports
    submits,                    \* job -> number of submit commands run for it
    polls,                      \* id -> status checks made since it left the queue
    \* saferun, as call invokes it for a job
    repeat,                     \* config.saferun.repeat
    attempt,                    \* job -> saferun's attempt
    last_error,                 \* job -> saferun's last_error
    nruns,                      \* job -> number of subprocess.run calls made
    sleeps,                     \* job -> number of time.sleep(delay) calls made
    \* GridRunner(grid='auto')
    gridrunner,                 \* config.gridrunner, in iteration order: what each
                                \* profile's `submit --version` does on this system
    grid,                       \* _autodetect's loop position
    probed,                     \* the profiles whose command has been tried
    settings,                   \* self.settings: the profile chosen, or None
    ctor                        \* the constructor: "none", "detect", "done", "raised"

jmvars == <<counter_len, jobfolder_exists, remove_empty_directories,
            jobs, names, hashes, fs, finished,
           load_ret>>
jobvars == <<name, path, parent, status, jobmanager, digest, results>>
runvars == <<parallel, maxjobs, semaphore, calls, done_at_start>>
gridvars == <<_active_jobs, event, _mainlock, jobid, retcode, ppc, active_jobs,
              running_jobs, queue, submits, polls>>
safevars == <<repeat, attempt, last_error, nruns, sleeps>>
detectvars == <<gridrunner, grid, probed, settings, ctor>>
vars == <<jmvars, jobvars, pc, raised, prev, runvars, gridvars, safevars,
          detectvars>>

Jobs == 1..NJobs
None == 0
NoPath == <<>>
NoDigest == "None"
NoSemaphore == -1
NotReturned == -1

\* saferun's repeat when there is no config.
DefaultRepeat == 5

\* ------------------------------------------------------------- strings

Digits == <<"0", "1", "2", "3", "4", "5", "6", "7", "8", "9">>

\* str(n) of a natural number.
RECURSIVE Str(_)
Str(n) == IF n < 10 THEN Digits[n + 1] ELSE Str(n \div 10) \o Digits[(n % 10) + 1]

\* s.zfill(w) of a string of digits.
RECURSIVE zfill(_, _)
zfill(s, w) == IF Len(s) >= w THEN s ELSE zfill("0" \o s, w)

\* ---------------------------------------------------------- filesystem

\* os.path.join(p, n): one more component.
opj(p, n) == Append(p, n)

\* self.workdir, the manager's working folder.
workdir == <<"plams">>

\* p + s for a path p: the string is appended to the last component.
PathPlus(p, s) == [p EXCEPT ![Len(p)] = @ \o s]

dirname(p) == SubSeq(p, 1, Len(p) - 1)

IsPrefix(p, q) == Len(p) <= Len(q) /\ SubSeq(q, 1, Len(p)) = p

\* os.path.exists(p)
exists(f, p) == p \in DOMAIN f

\* An rmtree that deletes nothing.
rmtree_keep(f, p) == f

\* shutil.rmtree(p): the directory and everything below it.
rmtree(f, p) == [q \in {r \in DOMAIN f : ~IsPrefix(p, r)} |-> f[q]]

\* os.rename(p, np) of a directory onto an unused name: the subtree moves.
rename(f, p, np) ==
    LET Rest(q) == SubSeq(q, Len(p) + 1, Len(q))
        stay == {r \in DOMAIN f : ~IsPrefix(p, r)}
        moved == {np \o Rest(r) : r \in {r \in DOMAIN f : IsPrefix(p, r)}}
    IN  [q \in stay \cup moved |->
            IF q \in stay THEN f[q] ELSE f[p \o SubSeq(q, Len(np) + 1, Len(q))]]

\* os.mkdir(p) when it succeeds: a new empty directory.
mkdir(f, p) == (p :> {}) @@ f

\* os.mkdir(p) raises unless the parent directory exists and p does not.
mkdir_ok(f, p) == exists(f, dirname(p)) /\ ~exists(f, p)

\* The index with no search for an unused one.
OldIndex_first(f, p, n) == n

\* The first i >= n for which path + '.old' + str(i) does not exist.
RECURSIVE OldIndex(_, _, _)
OldIndex(f, p, n) ==
    IF exists(f, PathPlus(p, ".old" \o Str(n))) THEN OldIndex(f, p, n + 1) ELSE n

\* ---------------------------------------------------------- JobManager

\* _register_name with the suffix taken before the counter is incremented.
_register_name_stale(nms, n, w) ==
    IF n \in DOMAIN nms
    THEN [names |-> [nms EXCEPT ![n] = @ + 1],
          name |-> n \o "." \o zfill(Str(nms[n]), w)]
    ELSE [names |-> (n :> 1) @@ nms, name |-> n]

\* JobManager._register_name: the new names dictionary and the job's new name.
_register_name(nms, n, w) ==
    IF n \in DOMAIN nms
    THEN [names |-> [nms EXCEPT ![n] = @ + 1],
          name |-> n \o "." \o zfill(Str(nms[n] + 1), w)]
    ELSE [names |-> (n :> 1) @@ nms, name |-> n]

\* The path _register gives a job that has none.
JobPath(j, nm) ==
    IF path[j] = NoPath
    THEN IF parent[j] # None THEN opj(path[parent[j]], nm) ELSE opj(workdir, nm)
    ELSE path[j]

\* The folder-collision branch with every unknown policy treated as remove.
FolderExists_lenient(f, p, policy) ==
    IF ~exists(f, p) THEN [exc |-> "None", fs |-> f]
    ELSE IF policy = "rename"
         THEN [exc |-> "None",
               fs |-> rename(f, p, PathPlus(p, ".old" \o Str(OldIndex(f, p, 1))))]
    ELSE [exc |-> "None", fs |-> rmtree(f, p)]

\* The folder-collision branch of _register: the tree after it, or the error.
FolderExists(f, p, policy) ==
    IF ~exists(f, p) THEN [exc |-> "None", fs |-> f]
    ELSE IF policy = "remove" THEN [exc |-> "None", fs |-> rmtree(f, p)]
    ELSE IF policy = "rename"
         THEN [exc |-> "None",
               fs |-> rename(f, p, PathPlus(p, ".old" \o Str(OldIndex(f, p, 1))))]
    ELSE [exc |-> "PlamsError", fs |-> f]

\* _register without its last assignment, job.status = 'registered'.
_register_silent(j) ==
    LET rn == _register_name(names, name[j], counter_len)
        p == JobPath(j, rn.name)
        fe == FolderExists(fs, p, jobfolder_exists)
        exc == IF fe.exc # "None" THEN fe.exc
               ELSE IF ~mkdir_ok(fe.fs, p) THEN "OSError" ELSE "None"
    IN  /\ jobmanager' = [jobmanager EXCEPT ![j] = TRUE]
        /\ names' = rn.names
        /\ name' = [name EXCEPT ![j] = rn.name]
        /\ path' = [path EXCEPT ![j] = p]
        /\ IF exc = "None"
           THEN /\ fs' = mkdir(fe.fs, p)
                /\ jobs' = Append(jobs, j)
                /\ pc' = [pc EXCEPT ![j] = "registered"]
           ELSE /\ fs' = fe.fs
                /\ pc' = [pc EXCEPT ![j] = "aborted"]
                /\ UNCHANGED jobs
        /\ UNCHANGED status
        /\ raised' = [raised EXCEPT ![j] = exc]
        /\ UNCHANGED <<counter_len, jobfolder_exists, remove_empty_directories,
                       finished, hashes, parent, digest, results, prev>>

\* JobManager._register(job)
_register(j) ==
    LET rn == _register_name(names, name[j], counter_len)
        p == JobPath(j, rn.name)
        fe == FolderExists(fs, p, jobfolder_exists)
        exc == IF fe.exc # "None" THEN fe.exc
               ELSE IF ~mkdir_ok(fe.fs, p) THEN "OSError" ELSE "None"
    IN  /\ jobmanager' = [jobmanager EXCEPT ![j] = TRUE]
        /\ names' = rn.names
        /\ name' = [name EXCEPT ![j] = rn.name]
        /\ path' = [path EXCEPT ![j] = p]
        /\ IF exc = "None"
           THEN /\ fs' = mkdir(fe.fs, p)
                /\ jobs' = Append(jobs, j)
                /\ status' = [status EXCEPT ![j] = "registered"]
                /\ pc' = [pc EXCEPT ![j] = "registered"]
           ELSE /\ fs' = fe.fs
                /\ pc' = [pc EXCEPT ![j] = "aborted"]
                /\ UNCHANGED <<jobs, status>>
        /\ raised' = [raised EXCEPT ![j] = exc]
        /\ UNCHANGED <<counter_len, jobfolder_exists, remove_empty_directories,
                       finished, hashes, parent, digest, results, prev>>

\* The lookup of _check_hash that never finds the digest.
hash_lookup_blind(hs, h) == None

\* The lookup of _check_hash: the job stored under the digest, if any.
hash_lookup(hs, h) == IF h # NoDigest /\ h \in DOMAIN hs THEN hs[h] ELSE None

\* The store of _check_hash, after a failed lookup: self.hashes[h] = job.
hash_store(hs, j, h) == IF h # NoDigest THEN (h :> j) @@ hs ELSE hs

\* _check_hash that stores the job on a hit as well.
_check_hash_overwrite(hs, j, h) ==
    [hashes |-> hash_store(hs, j, h), val |-> hash_lookup(hs, h)]

\* JobManager._check_hash: the new hashes dictionary and the returned job.
_check_hash(hs, j, h) ==
    LET found == hash_lookup(hs, h)
    IN  [hashes |-> IF found # None THEN hs ELSE hash_store(hs, j, h),
         val |-> found]

\* A list.remove that takes the first element out, whichever it is.
SeqWithout_first(s, x) == Tail(s)

\* JobManager.remove_job: the new jobs list, back-reference and hashes.
SeqWithout(s, x) ==
    LET i == CHOOSE k \in 1..Len(s) : s[k] = x /\ \A m \in 1..(k - 1) : s[m] # x
    IN  SubSeq(s, 1, i - 1) \o SubSeq(s, i + 1, Len(s))

InSeq(s, x) == \E k \in 1..Len(s) : s[k] = x

\* remove_job that leaves hashes alone.
remove_job_keep(js, hs, j, h) ==
    [jobs |-> IF InSeq(js, j) THEN SeqWithout(js, j) ELSE js,
     detach |-> InSeq(js, j),
     hashes |-> hs]

\* remove_job that forgets the digest whichever job the entry refers to.
remove_job_forget(js, hs, j, h) ==
    [jobs |-> IF InSeq(js, j) THEN SeqWithout(js, j) ELSE js,
     detach |-> InSeq(js, j),
     hashes |-> IF h \in DOMAIN hs
                THEN [k \in DOMAIN hs \ {h} |-> hs[k]] ELSE hs]

\* JobManager.remove_job(job), h being job.hash().
remove_job(js, hs, j, h) ==
    [jobs |-> IF InSeq(js, j) THEN SeqWithout(js, j) ELSE js,
     detach |-> InSeq(js, j),
     hashes |-> IF h \in DOMAIN hs /\ hs[h] = j
                THEN [k \in DOMAIN hs \ {h} |-> hs[k]] ELSE hs]

\* What pickle.load gives for a snapshot file, by the file's name: a job with
\* its children, or nothing when unpickling raises.
Pickled(file) ==
    IF file = "X.dill"
    THEN [ok |-> TRUE, name |-> "X", digest |-> "h2", status |-> "ok",
          children |-> <<>>]
    ELSE IF file = "M.dill"
    THEN [ok |-> TRUE, name |-> "M", digest |-> "h2", status |-> "ok",
          children |-> <<[name |-> "Y", digest |-> "h1", status |-> "ok"],
                         [name |-> "Z", digest |-> "h1", status |-> "ok"]>>]
    ELSE [ok |-> FALSE, name |-> "", digest |-> NoDigest, status |-> "none",
          children |-> <<>>]

SnapshotFiles == {"X.dill", "M.dill", "bad.dill"}

\* The job objects not constructed yet, and the k-th of them.
Free == {j \in Jobs : status[j] = "none"}

RECURSIVE NthFree(_, _)
NthFree(S, k) ==
    LET m == CHOOSE x \in S : \A y \in S : x <= y
    IN  IF k = 1 THEN m ELSE NthFree(S \ {m}, k - 1)

\* setstate that leaves a digest that is already a key alone.
SetHash_keep(hs, h, j) ==
    IF h # NoDigest /\ h \notin DOMAIN hs THEN (h :> j) @@ hs ELSE hs

\* setstate of load_job for the hashes dictionary: the children first, in
\* order, then the job itself; every non-None digest is stored.
SetHash(hs, h, j) == IF h # NoDigest THEN (h :> j) @@ hs ELSE hs

RECURSIVE SetChildHashes(_, _, _, _)
SetChildHashes(hs, cs, ids, k) ==
    IF k > Len(cs) THEN hs
    ELSE SetChildHashes(SetHash(hs, cs[k].digest, ids[k]), cs, ids, k + 1)

\* A pickle.load whose exceptions nobody catches.
unpickle_raises_never(file) == FALSE

\* load_job: pickle.load(f) raises, and the except clause logs and returns None.
unpickle_raises(file) == ~Pickled(file).ok

\* JobManager.load_job(filename) for the file `file` of the directory d.
load_job(d, file) ==
    LET snap == Pickled(file)
        n == Len(snap.children)
        j == NthFree(Free, 1)
        ids == [k \in 1..n |-> NthFree(Free, k + 1)]
        kid(c) == CHOOSE k \in 1..n : ids[k] = c
        kids == {ids[k] : k \in 1..n}
    IN  /\ exists(fs, d) /\ file \in fs[d]
        /\ IF unpickle_raises(file)
           THEN /\ load_ret' = None
                /\ UNCHANGED <<counter_len, jobfolder_exists,
                               remove_empty_directories, jobs, names, hashes,
                               fs, finished, jobvars, pc, raised, prev>>
           ELSE /\ Cardinality(Free) >= n + 1
                /\ load_ret' = j
                /\ name' = [c \in Jobs |->
                              IF c = j THEN snap.name
                              ELSE IF c \in kids THEN snap.children[kid(c)].name
                              ELSE name[c]]
                /\ digest' = [c \in Jobs |->
                              IF c = j THEN snap.digest
                              ELSE IF c \in kids THEN snap.children[kid(c)].digest
                              ELSE digest[c]]
                /\ status' = [c \in Jobs |->
                              IF c = j THEN snap.status
                              ELSE IF c \in kids THEN snap.children[kid(c)].status
                              ELSE status[c]]
                /\ parent' = [c \in Jobs |->
                              IF c = j THEN None ELSE IF c \in kids THEN j
                              ELSE parent[c]]
                /\ jobmanager' = [c \in Jobs |->
                              IF c = j \/ c \in kids THEN TRUE ELSE jobmanager[c]]
                /\ path' = [c \in Jobs |->
                              IF c = j THEN d
                              ELSE IF c \in kids
                                   THEN opj(d, snap.children[kid(c)].name)
                              ELSE path[c]]
                /\ pc' = [c \in Jobs |->
                              IF c = j \/ c \in kids THEN "loaded" ELSE pc[c]]
                /\ hashes' = SetHash(SetChildHashes(hashes, snap.children, ids, 1),
                                     snap.digest, j)
                /\ UNCHANGED <<counter_len, jobfolder_exists,
                               remove_empty_directories, jobs, names, fs, finished,
                               results, raised, prev>>

\* A directory that holds no file, and whose subdirectories hold none.
EmptyTree(f, p) == \A q \in DOMAIN f : IsPrefix(p, q) => f[q] = {}

\* JobManager._clean: with remove_empty_directories every empty directory
\* below the working folder is removed, bottom up.
_clean(f, remove) ==
    IF remove
    THEN [q \in {r \in DOMAIN f : r = workdir \/ ~IsPrefix(workdir, r)
                                   \/ ~EmptyTree(f, r)} |-> f[q]]
    ELSE f

\* ------------------------------------------------ the manager, call by call

\* The names a caller gives its jobs, and the digests job.hash() returns.
ReqNames == {"X", "X.002"}
Digests == {"h1"}

RECURSIVE Depth(_)
Depth(j) == IF parent[j] = None THEN 1 ELSE 1 + Depth(parent[j])

\* Job(name=n) constructed by the caller; a child is given its parent.
\* The manager is used from one thread here: a job is registered and its
\* hash checked (both in the job's prepare) before the caller's next call,
\* and finish() is the last call.
Idle == ~finished /\ \A k \in Jobs : pc[k] \notin {"new", "registered"}

NewJob(j, n, p, h) ==
    /\ Free # {} /\ j = NthFree(Free, 1)
    /\ Idle
    /\ p # None => /\ pc[p] = "hashed" /\ prev[p] = None /\ jobmanager[p]
                   /\ Depth(p) < MaxDepth
    /\ name' = [name EXCEPT ![j] = n]
    /\ parent' = [parent EXCEPT ![j] = p]
    /\ digest' = [digest EXCEPT ![j] = h]
    /\ status' = [status EXCEPT ![j] = "created"]
    /\ pc' = [pc EXCEPT ![j] = "new"]
    /\ UNCHANGED <<jmvars, path, jobmanager, results, raised, prev, runvars,
                   gridvars>>
    /\ UNCHANGED safevars
    /\ UNCHANGED detectvars

\* run() hands a job to the manager once: a job whose registration raised is
\* not registered again.
Register(j) ==
    /\ pc[j] = "new"
    /\ _register(j)
    /\ load_ret' = NotReturned
    /\ UNCHANGED <<runvars, gridvars>>
    /\ UNCHANGED safevars
    /\ UNCHANGED detectvars

CheckHash(j) ==
    /\ pc[j] = "registered"
    /\ LET r == _check_hash(hashes, j, digest[j])
       IN  /\ hashes' = r.hashes
           /\ prev' = [prev EXCEPT ![j] = r.val]
    /\ pc' = [pc EXCEPT ![j] = "hashed"]
    /\ UNCHANGED <<counter_len, jobfolder_exists, remove_empty_directories,
                   jobs, names, fs, finished, jobvars, raised, runvars, gridvars>>
    /\ UNCHANGED safevars
    /\ UNCHANGED detectvars
    /\ load_ret' = NotReturned

\* The caller removes a job it has run or loaded.
RemoveJob(j) ==
    /\ Idle
    /\ pc[j] \in {"hashed", "loaded"}
    /\ LET r == remove_job(jobs, hashes, j, digest[j])
       IN  /\ jobs' = r.jobs
           /\ hashes' = r.hashes
           /\ jobmanager' = [jobmanager EXCEPT ![j] = IF r.detach THEN FALSE ELSE @]
    /\ UNCHANGED <<counter_len, jobfolder_exists, remove_empty_directories,
                   names, fs, finished, name, path, parent, status, digest,
                   results, pc, raised, prev, runvars, gridvars>>
    /\ UNCHANGED safevars
    /\ UNCHANGED detectvars
    /\ load_ret' = NotReturned

LoadJob(d, file) ==
    Idle /\ load_job(d, file) /\ UNCHANGED <<runvars, gridvars, safevars, detectvars>>

\* finish(): the manager's _clean.
Clean ==
    /\ Idle
    /\ fs' = _clean(fs, remove_empty_directories)
    /\ finished' = TRUE
    /\ UNCHANGED <<counter_len, jobfolder_exists, remove_empty_directories,
                   jobs, names, hashes, jobvars, pc, raised, prev, runvars,
                   gridvars>>
    /\ UNCHANGED safevars
    /\ UNCHANGED detectvars
    /\ load_ret' = NotReturned

\* The working folder as the manager finds it: fresh, or left by earlier runs.
InitialTrees ==
    { (workdir :> {}),
      (workdir :> {}) @@ (opj(workdir, "X") :> {"X.dill", "X.out"}),
      (workdir :> {}) @@ (opj(workdir, "X") :> {"bad.dill"})
          @@ (opj(workdir, "X.old1") :> {"X.out"})
          @@ (opj(workdir, "M") :> {"M.dill"})
          @@ (opj(opj(workdir, "M"), "Y") :> {"X.dill"}) }

InitJobs ==
    /\ jobs = <<>>
    /\ names = <<>>
    /\ hashes = <<>>
    /\ name = [j \in Jobs |-> ""]
    /\ path = [j \in Jobs |-> NoPath]
    /\ parent = [j \in Jobs |-> None]
    /\ status = [j \in Jobs |-> "none"]
    /\ jobmanager = [j \in Jobs |-> FALSE]
    /\ digest = [j \in Jobs |-> NoDigest]
    /\ results = [j \in Jobs |-> j]
    /\ pc = [j \in Jobs |-> "none"]
    /\ raised = [j \in Jobs |-> "None"]
    /\ prev = [j \in Jobs |-> None]
    /\ calls = [j \in Jobs |-> 0]
    /\ done_at_start = [j \in Jobs |-> {}]

\* The runner was constructed with a grid given by the caller: no autodetection.
NoAutodetect ==
    /\ gridrunner = <<>>
    /\ grid = 0
    /\ probed = {}
    /\ settings = None
    /\ ctor = "none"

\* No saferun has been called.
InitSaferun ==
    /\ attempt = [j \in Jobs |-> 0]
    /\ last_error = [j \in Jobs |-> "None"]
    /\ nruns = [j \in Jobs |-> 0]
    /\ sleeps = [j \in Jobs |-> 0]

\* A GridRunner as constructed, with nothing submitted.
InitGridRunner ==
    /\ _active_jobs = {}
    /\ event = {}
    /\ _mainlock = FALSE
    /\ jobid = [j \in Jobs |-> None]
    /\ retcode = [j \in Jobs |-> NotReturned]
    /\ ppc = [j \in Jobs |-> "none"]
    /\ active_jobs = [j \in Jobs |-> {}]
    /\ running_jobs = [j \in Jobs |-> {}]
    /\ queue = {}
    /\ submits = [j \in Jobs |-> 0]
    /\ polls = [j \in Jobs |-> 0]

InitJM ==
    /\ counter_len = 3
    /\ jobfolder_exists \in {"remove", "rename", "None"}
    /\ remove_empty_directories = TRUE
    /\ fs \in InitialTrees
    /\ finished = FALSE
    /\ load_ret = NotReturned
    /\ InitJobs
    /\ parallel = FALSE /\ maxjobs = 0 /\ semaphore = NoSemaphore
    /\ InitGridRunner
    /\ repeat = DefaultRepeat /\ InitSaferun
    /\ NoAutodetect

NextJM ==
    \/ \E j \in Jobs, n \in ReqNames, p \in Jobs \cup {None},
          h \in Digests \cup {NoDigest} : NewJob(j, n, p, h)
    \/ \E j \in Jobs : Register(j)
    \/ \E j \in Jobs : CheckHash(j)
    \/ \E j \in Jobs : RemoveJob(j)
    \/ \E d \in DOMAIN fs, file \in SnapshotFiles : LoadJob(d, file)
    \/ Clean

SpecJM == InitJM /\ [][NextJM]_vars

\* ------------------------------------------- registration on a used folder

\* Working folders left by earlier runs: job folders with subfolders, and
\* folders that earlier renames moved aside.
UsedTrees ==
    { (workdir :> {}) @@ (opj(workdir, "X") :> {"X.out"})
          @@ (opj(opj(workdir, "X"), "sub") :> {"sub.out"})
          @@ (opj(workdir, "X.old1") :> {"X.in"}),
      (workdir :> {}) @@ (opj(workdir, "X") :> {"X.out"})
          @@ (opj(workdir, "X.old1") :> {"X.in"})
          @@ (opj(workdir, "X.old2") :> {})
          @@ (opj(workdir, "X.002") :> {"X.002.out"})
          @@ (opj(workdir, "X.002.old2") :> {}) }

InitReg ==
    /\ counter_len = 3
    /\ jobfolder_exists \in {"remove", "rename", "None"}
    /\ remove_empty_directories = TRUE
    /\ fs \in InitialTrees \cup UsedTrees
    /\ finished = FALSE
    /\ load_ret = NotReturned
    /\ InitJobs
    /\ parallel = FALSE /\ maxjobs = 0 /\ semaphore = NoSemaphore
    /\ InitGridRunner
    /\ repeat = DefaultRepeat /\ InitSaferun
    /\ NoAutodetect

\* Jobs are made and run one after another; nothing is loaded or removed.
NextReg ==
    \/ \E j \in Jobs, n \in ReqNames, p \in Jobs \cup {None},
          h \in Digests \cup {NoDigest} : NewJob(j, n, p, h)
    \/ \E j \in Jobs : Register(j)
    \/ \E j \in Jobs : CheckHash(j)

SpecReg == InitReg /\ [][NextReg]_vars

\* ------------------------------------------------------------ JobRunner

\* saferun's loop condition that stops one attempt early.
saferun_continue_short(a, r) == a < r

\* saferun: `while attempt <= repeat`.
saferun_continue(a, r) == a <= r

\* An except clause that catches every exception.
caught_any(e) == TRUE

\* saferun: `except BlockingIOError`.
caught(e) == e = "BlockingIOError"

\* _limit on entry with a semaphore that lets every caller through.
_limit_enter_open(sem) ==
    [ok |-> TRUE, sem |-> IF sem > 0 THEN sem - 1 ELSE sem]

\* _limit on entry: `with self.semaphore` when there is one; the caller is
\* let in when a slot is free, and takes it.
_limit_enter(sem) ==
    IF sem = NoSemaphore THEN [ok |-> TRUE, sem |-> sem]
    ELSE [ok |-> sem > 0, sem |-> sem - 1]

\* _limit on exit: the slot is given back.
_limit_exit(sem) == IF sem = NoSemaphore THEN sem ELSE sem + 1

\* JobRunner.__init__: the semaphore for maxjobs.
NewSemaphore(n) == IF n # 0 THEN n ELSE NoSemaphore

\* A job whose run is under way, in _run_job.
Running(j) == pc[j] \in {"registered", "miss", "gate", "call", "finalize"}

\* A job whose run has ended with its results in place.
Completed(j) == pc[j] = "done"

\* An _in_thread that runs every _run_job in the caller's thread.
_in_thread_never(j) == \A k \in Jobs \ {j} : ~Running(k)

\* _in_thread: in parallel mode every _run_job has a thread of its own; in
\* serial mode it runs in the caller's thread, one job after another.
_in_thread(j) == parallel \/ \A k \in Jobs \ {j} : ~Running(k)

\* Job(name=n) constructed by the caller, to be run on its own; the caller
\* constructs its jobs, those with a digest first, then runs them in any order.
NewRunJob(j, n, h) ==
    /\ Free # {} /\ j = NthFree(Free, 1)
    /\ \A k \in Jobs : pc[k] \in {"none", "new"}
    /\ h # NoDigest => \A k \in Jobs \ Free : digest[k] # NoDigest
    /\ name' = [name EXCEPT ![j] = n]
    /\ digest' = [digest EXCEPT ![j] = h]
    /\ status' = [status EXCEPT ![j] = "created"]
    /\ pc' = [pc EXCEPT ![j] = "new"]
    /\ UNCHANGED <<jmvars, path, parent, jobmanager, results, raised, prev, runvars,
                   gridvars>>
    /\ UNCHANGED safevars
    /\ UNCHANGED detectvars

\* job.run(): JobRunner._run_job(job, jobmanager) starts, and job._prepare
\* has the manager register the job.
RunJob(j) ==
    /\ pc[j] = "new"
    /\ _in_thread(j)
    /\ _register(j)
    /\ UNCHANGED load_ret
    /\ done_at_start' = [done_at_start EXCEPT ![j] = {k \in Jobs : Completed(k)}]
    /\ UNCHANGED <<parallel, maxjobs, semaphore, calls, gridvars>>
    /\ UNCHANGED safevars
    /\ UNCHANGED detectvars

\* job._prepare: _check_hash looks the digest up; on a hit the job takes the
\* previous job's results and _prepare returns False, so _run_job is over.
PrepareLookup(j) ==
    /\ pc[j] = "registered"
    /\ LET found == hash_lookup(hashes, digest[j])
       IN  /\ prev' = [prev EXCEPT ![j] = found]
           /\ pc' = [pc EXCEPT ![j] = IF found # None THEN "done" ELSE "miss"]
           /\ results' = [results EXCEPT ![j] =
                             IF found # None THEN results[found] ELSE @]
    /\ UNCHANGED <<jmvars, name, path, parent, status, jobmanager, digest,
                   raised, runvars, gridvars>>
    /\ UNCHANGED safevars
    /\ UNCHANGED detectvars

\* ... not having found the digest, _check_hash stores the job under it;
\* _prepare returns True and job._execute(runner) begins.
PrepareStore(j) ==
    /\ pc[j] = "miss"
    /\ hashes' = hash_store(hashes, j, digest[j])
    /\ status' = [status EXCEPT ![j] = "running"]
    /\ pc' = [pc EXCEPT ![j] = "gate"]
    /\ UNCHANGED <<counter_len, jobfolder_exists, remove_empty_directories, load_ret,
                   jobs, names, fs, finished, name, path, parent, jobmanager,
                   digest, results, raised, prev, runvars, gridvars>>
    /\ UNCHANGED safevars
    /\ UNCHANGED detectvars

\* runner.call(...) through _limit: the process is started.
CallEnter(j) ==
    /\ pc[j] = "gate"
    /\ LET g == _limit_enter(semaphore)
       IN  /\ g.ok
           /\ semaphore' = g.sem
    /\ calls' = [calls EXCEPT ![j] = @ + 1]
    /\ pc' = [pc EXCEPT ![j] = "call"]
    /\ UNCHANGED <<jmvars, jobvars, raised, prev, parallel, maxjobs, done_at_start,
                   gridvars>>
    /\ UNCHANGED safevars
    /\ UNCHANGED detectvars

\* saferun: subprocess.run succeeds on this attempt; the process ends and
\* call returns its exit code.
CallReturn(j) ==
    /\ pc[j] = "call"
    /\ saferun_continue(attempt[j], repeat)
    /\ nruns' = [nruns EXCEPT ![j] = @ + 1]
    /\ semaphore' = _limit_exit(semaphore)
    /\ pc' = [pc EXCEPT ![j] = "finalize"]
    /\ UNCHANGED <<jmvars, jobvars, raised, prev, parallel, maxjobs, calls,
                   done_at_start, gridvars, repeat, attempt, last_error, sleeps,
                   detectvars>>

\* job._finalize(): the results are collected and the job's check decides.
Finalize(j, st) ==
    /\ pc[j] = "finalize"
    /\ status' = [status EXCEPT ![j] = st]
    /\ pc' = [pc EXCEPT ![j] = "done"]
    /\ UNCHANGED <<jmvars, name, path, parent, jobmanager, digest, results,
                   raised, prev, runvars, gridvars>>
    /\ UNCHANGED safevars
    /\ UNCHANGED detectvars

InitRun ==
    /\ counter_len = 3
    /\ jobfolder_exists = "None"
    /\ remove_empty_directories = TRUE
    /\ fs = (workdir :> {})
    /\ finished = FALSE
    /\ load_ret = NotReturned
    /\ InitJobs
    /\ parallel \in BOOLEAN
    /\ maxjobs \in {0, 1, 2}
    /\ semaphore = NewSemaphore(maxjobs)
    /\ InitGridRunner
    /\ repeat = DefaultRepeat /\ InitSaferun
    /\ NoAutodetect

NextRun ==
    \/ \E j \in Jobs, h \in Digests \cup {NoDigest} : NewRunJob(j, "X", h)
    \/ \E j \in Jobs : RunJob(j)
    \/ \E j \in Jobs : PrepareLookup(j)
    \/ \E j \in Jobs : PrepareStore(j)
    \/ \E j \in Jobs : CallEnter(j)
    \/ \E j \in Jobs : CallReturn(j)
    \/ \E j \in Jobs, st \in {"ok", "failed"} : Finalize(j, st)

SpecRun == InitRun /\ [][NextRun]_vars

\* ---------------------------------------------------------------- saferun

\* A _run_job that goes on to job._finalize() when job._execute raised.
Escapes_finalize(j, e) ==
    /\ raised' = [raised EXCEPT ![j] = e]
    /\ semaphore' = _limit_exit(semaphore)
    /\ pc' = [pc EXCEPT ![j] = "finalize"]

\* An exception leaves saferun and call (its `with` blocks and _limit are
\* left on the way) and then job._execute and _run_job, which has no handler.
Escapes(j, e) ==
    /\ raised' = [raised EXCEPT ![j] = e]
    /\ semaphore' = _limit_exit(semaphore)
    /\ pc' = [pc EXCEPT ![j] = "aborted"]

\* saferun: subprocess.run raises e on this attempt. The transient error is
\* counted, kept as last_error and slept on; any other exception is not caught.
CallRaise(j, e) ==
    /\ pc[j] = "call"
    /\ saferun_continue(attempt[j], repeat)
    /\ nruns' = [nruns EXCEPT ![j] = @ + 1]
    /\ IF caught(e)
       THEN /\ attempt' = [attempt EXCEPT ![j] = @ + 1]
            /\ last_error' = [last_error EXCEPT ![j] = e]
            /\ sleeps' = [sleeps EXCEPT ![j] = @ + 1]
            /\ UNCHANGED <<pc, raised, semaphore>>
       ELSE /\ Escapes(j, e)
            /\ UNCHANGED <<attempt, last_error, sleeps>>
    /\ UNCHANGED <<jmvars, jobvars, prev, parallel, maxjobs, calls,
                   done_at_start, gridvars, repeat, detectvars>>

\* saferun: the loop is over without a return, `raise last_error`.
CallExhausted(j) ==
    /\ pc[j] = "call"
    /\ ~saferun_continue(attempt[j], repeat)
    /\ Escapes(j, last_error[j])
    /\ UNCHANGED <<jmvars, jobvars, prev, parallel, maxjobs, calls,
                   done_at_start, gridvars, safevars, detectvars>>

\* The name the NthJob registered as "X" has.
NthName(k) == IF k = 1 THEN "X" ELSE "X." \o zfill(Str(k), 3)

\* NJobs jobs named "X", registered one after another in a fresh working
\* folder and run in parallel without a limit, are all inside call.
InitSafe ==
    /\ counter_len = 3
    /\ jobfolder_exists = "None"
    /\ remove_empty_directories = TRUE
    /\ fs = [q \in {workdir} \cup {opj(workdir, NthName(k)) : k \in Jobs} |-> {}]
    /\ finished = FALSE
    /\ load_ret = NotReturned
    /\ jobs = [k \in Jobs |-> k]
    /\ names = ("X" :> NJobs)
    /\ hashes = <<>>
    /\ name = [j \in Jobs |-> NthName(j)]
    /\ path = [j \in Jobs |-> opj(workdir, NthName(j))]
    /\ parent = [j \in Jobs |-> None]
    /\ status = [j \in Jobs |-> "running"]
    /\ jobmanager = [j \in Jobs |-> TRUE]
    /\ digest = [j \in Jobs |-> NoDigest]
    /\ results = [j \in Jobs |-> j]
    /\ pc = [j \in Jobs |-> "call"]
    /\ raised = [j \in Jobs |-> "None"]
    /\ prev = [j \in Jobs |-> None]
    /\ calls = [j \in Jobs |-> 1]
    /\ done_at_start = [j \in Jobs |-> {}]
    /\ parallel = TRUE /\ maxjobs = 0 /\ semaphore = NoSemaphore
    /\ InitGridRunner
    /\ repeat \in 0..MaxRepeat
    /\ InitSaferun
    /\ NoAutodetect

NextSafe ==
    \/ \E j \in Jobs : CallReturn(j)
    \/ \E j \in Jobs : \E e \in {"BlockingIOError", "OSError"} : CallRaise(j, e)
    \/ \E j \in Jobs : CallExhausted(j)

SpecSafe == InitSafe /\ [][NextSafe]_vars

\* ------------------------------------------------ runs that raise

\* A runner on a working folder where an earlier run has left the folder X,
\* under the error policy, with one retry for saferun.
InitCrash ==
    /\ counter_len = 3
    /\ jobfolder_exists = "None"
    /\ remove_empty_directories = TRUE
    /\ fs = (workdir :> {}) @@ (opj(workdir, "X") :> {"X.out"})
    /\ finished = FALSE
    /\ load_ret = NotReturned
    /\ InitJobs
    /\ parallel \in BOOLEAN
    /\ maxjobs = 1
    /\ semaphore = NewSemaphore(maxjobs)
    /\ InitGridRunner
    /\ repeat = 1 /\ InitSaferun
    /\ NoAutodetect

\* The runs of SpecRun, with a subprocess.run that may raise.
NextCrash ==
    \/ NextRun
    \/ \E j \in Jobs : \E e \in {"BlockingIOError", "OSError"} : CallRaise(j, e)
    \/ \E j \in Jobs : CallExhausted(j)

SpecCrash == InitCrash /\ [][NextCrash]_vars

\* ----------------------------------------------------------- GridRunner

\* The jobs that are run with the GridRunner.
Callers == 1..NCalls

\* A job that is inside GridRunner.call.
InGridCall(j) == pc[j] \in {"submitted", "trigger", "polling", "wait"}

\* getid that takes every output of the submit command for a success.
getid_failed_ignored(id) == FALSE

\* call: `if jobid is None`, the submit command's output held no id.
getid_failed(id) == id = None

\* _mainlock.acquire(blocking=False) that succeeds whoever holds the lock.
acquire_always(lock) == TRUE

\* _mainlock.acquire(blocking=False): got only when the lock is free.
acquire(lock) == ~lock

\* The _check_queue calls that are inside the main loop.
InLoop == {p \in Callers : ppc[p] \in {"snapshot", "check", "process"}}

\* GridRunner.call through _limit, up to the id: the submit command is run
\* and getid reads its output; without an id call returns 1 at once. In serial
\* mode calls are made one after another.
Submit(j, id) ==
    /\ pc[j] = "gate"
    /\ parallel \/ \A k \in Jobs : ~InGridCall(k)
    /\ submits' = [submits EXCEPT ![j] = @ + 1]
    /\ jobid' = [jobid EXCEPT ![j] = id]
    /\ LET g == _limit_enter(semaphore)
       IN  /\ g.ok
           /\ IF getid_failed(id)
              THEN /\ retcode' = [retcode EXCEPT ![j] = 1]
                   /\ pc' = [pc EXCEPT ![j] = "returned"]
                   /\ UNCHANGED <<semaphore, queue>>
              ELSE /\ queue' = queue \cup {id}
                   /\ semaphore' = g.sem
                   /\ pc' = [pc EXCEPT ![j] = "submitted"]
                   /\ UNCHANGED retcode
    /\ UNCHANGED <<jmvars, jobvars, raised, prev, parallel, maxjobs, calls,
                   done_at_start, _active_jobs, event, _mainlock, ppc,
                   active_jobs, running_jobs, polls>>
    /\ UNCHANGED safevars
    /\ UNCHANGED detectvars

\* call: with _active_lock, the id is entered with a new event.
RegisterId(j) ==
    /\ pc[j] = "submitted"
    /\ _active_jobs' = _active_jobs \cup {jobid[j]}
    /\ pc' = [pc EXCEPT ![j] = "trigger"]
    /\ UNCHANGED <<jmvars, jobvars, raised, prev, runvars, event, _mainlock,
                   jobid, retcode, ppc, active_jobs, running_jobs, queue,
                   submits, polls>>
    /\ UNCHANGED safevars
    /\ UNCHANGED detectvars

\* call: self._check_queue(); in parallel mode _in_thread starts it in a
\* thread and call goes on to event.wait(), in serial mode call runs it.
Trigger(j) ==
    /\ pc[j] = "trigger"
    /\ ppc' = [ppc EXCEPT ![j] = "acquire"]
    /\ pc' = [pc EXCEPT ![j] = IF parallel THEN "wait" ELSE "polling"]
    /\ UNCHANGED <<jmvars, jobvars, raised, prev, runvars, _active_jobs, event,
                   _mainlock, jobid, retcode, active_jobs, running_jobs, queue,
                   submits, polls>>
    /\ UNCHANGED safevars
    /\ UNCHANGED detectvars

\* Serial mode: the _check_queue that call ran has returned.
Polled(j) ==
    /\ pc[j] = "polling"
    /\ ppc[j] \in {"done", "skipped"}
    /\ pc' = [pc EXCEPT ![j] = "wait"]
    /\ UNCHANGED <<jmvars, jobvars, raised, prev, runvars, gridvars>>
    /\ UNCHANGED safevars
    /\ UNCHANGED detectvars

\* call: event.wait() is over, call returns 0 and leaves _limit.
Return(j) ==
    /\ pc[j] = "wait"
    /\ jobid[j] \in event
    /\ retcode' = [retcode EXCEPT ![j] = 0]
    /\ semaphore' = _limit_exit(semaphore)
    /\ pc' = [pc EXCEPT ![j] = "returned"]
    /\ UNCHANGED <<jmvars, jobvars, raised, prev, parallel, maxjobs, calls,
                   done_at_start, _active_jobs, event, _mainlock, jobid, ppc,
                   active_jobs, running_jobs, queue, submits, polls>>
    /\ UNCHANGED safevars
    /\ UNCHANGED detectvars

\* _check_queue: the lock is tried; without it the call is over.
Acquire(p) ==
    /\ ppc[p] = "acquire"
    /\ IF acquire(_mainlock)
       THEN /\ _mainlock' = TRUE
            /\ ppc' = [ppc EXCEPT ![p] = "snapshot"]
       ELSE /\ ppc' = [ppc EXCEPT ![p] = "skipped"]
            /\ UNCHANGED _mainlock
    /\ UNCHANGED <<jmvars, jobvars, pc, raised, prev, runvars, _active_jobs,
                   event, jobid, retcode, active_jobs, running_jobs, queue,
                   submits, polls>>
    /\ UNCHANGED safevars
    /\ UNCHANGED detectvars

\* _check_queue: with _active_lock, the registered ids are copied (after the
\* sleep, from the second iteration on).
Snapshot(p) ==
    /\ ppc[p] = "snapshot"
    /\ active_jobs' = [active_jobs EXCEPT ![p] = _active_jobs]
    /\ ppc' = [ppc EXCEPT ![p] = "check"]
    /\ UNCHANGED <<jmvars, jobvars, pc, raised, prev, runvars, _active_jobs,
                   event, _mainlock, jobid, retcode, running_jobs, queue,
                   submits, polls>>
    /\ UNCHANGED safevars
    /\ UNCHANGED detectvars

\* _check_queue: the status command is run and its output parsed.
Check(p) ==
    /\ ppc[p] = "check"
    /\ running_jobs' = [running_jobs EXCEPT ![p] = queue]
    /\ polls' = [i \in Jobs |->
                    IF i \in _active_jobs /\ i \notin queue /\ polls[i] < 3
                    THEN polls[i] + 1 ELSE polls[i]]
    /\ ppc' = [ppc EXCEPT ![p] = "process"]
    /\ UNCHANGED <<jmvars, jobvars, pc, raised, prev, runvars, _active_jobs,
                   event, _mainlock, jobid, retcode, active_jobs, queue,
                   submits>>
    /\ UNCHANGED safevars
    /\ UNCHANGED detectvars

\* A processing that goes through the ids registered now, not those copied
\* before the status check.
Process_live(p) ==
    /\ ppc[p] = "process"
    /\ LET released == _active_jobs \ running_jobs[p]
       IN  /\ event' = event \cup released
           /\ _active_jobs' = _active_jobs \ released
    /\ ppc' = [ppc EXCEPT ![p] = IF _active_jobs' = {} THEN "release"
                                 ELSE "snapshot"]
    /\ UNCHANGED <<jmvars, jobvars, pc, raised, prev, runvars, _mainlock,
                   jobid, retcode, active_jobs, running_jobs, queue, submits,
                   polls>>
    /\ UNCHANGED safevars
    /\ UNCHANGED detectvars

\* _check_queue: with _active_lock, the ids that were copied and are not
\* running get their event set and are deleted; with nothing left the loop is
\* left by `return`, the lock still held.
Process(p) ==
    /\ ppc[p] = "process"
    /\ LET released == active_jobs[p] \ running_jobs[p]
       IN  /\ event' = event \cup released
           /\ _active_jobs' = _active_jobs \ released
    /\ ppc' = [ppc EXCEPT ![p] = IF _active_jobs' = {} THEN "release"
                                 ELSE "snapshot"]
    /\ UNCHANGED <<jmvars, jobvars, pc, raised, prev, runvars, _mainlock,
                   jobid, retcode, active_jobs, running_jobs, queue, submits,
                   polls>>
    /\ UNCHANGED safevars
    /\ UNCHANGED detectvars

\* _check_queue: `finally: self._mainlock.release()`.
Release(p) ==
    /\ ppc[p] = "release"
    /\ _mainlock' = FALSE
    /\ ppc' = [ppc EXCEPT ![p] = "done"]
    /\ UNCHANGED <<jmvars, jobvars, pc, raised, prev, runvars, _active_jobs,
                   event, jobid, retcode, active_jobs, running_jobs, queue,
                   submits, polls>>
    /\ UNCHANGED safevars
    /\ UNCHANGED detectvars

\* The scheduler: a submitted job ends and leaves the queue.
JobEnds(id) ==
    /\ id \in queue
    /\ queue' = queue \ {id}
    /\ UNCHANGED <<jmvars, jobvars, pc, raised, prev, runvars, _active_jobs,
                   event, _mainlock, jobid, retcode, ppc, active_jobs,
                   running_jobs, submits, polls>>
    /\ UNCHANGED safevars
    /\ UNCHANGED detectvars

\* GridRunner(parallel, maxjobs) with NCalls prepared jobs about to call it.
InitGrid ==
    /\ counter_len = 3
    /\ jobfolder_exists = "None"
    /\ remove_empty_directories = TRUE
    /\ fs = (workdir :> {})
    /\ finished = FALSE
    /\ load_ret = NotReturned
    /\ jobs = <<>>
    /\ names = <<>>
    /\ hashes = <<>>
    /\ name = [j \in Jobs |-> "X"]
    /\ path = [j \in Jobs |-> NoPath]
    /\ parent = [j \in Jobs |-> None]
    /\ status = [j \in Jobs |-> "running"]
    /\ jobmanager = [j \in Jobs |-> TRUE]
    /\ digest = [j \in Jobs |-> NoDigest]
    /\ results = [j \in Jobs |-> j]
    /\ pc = [j \in Jobs |-> IF j \in Callers THEN "gate" ELSE "none"]
    /\ raised = [j \in Jobs |-> "None"]
    /\ prev = [j \in Jobs |-> None]
    /\ calls = [j \in Jobs |-> 0]
    /\ done_at_start = [j \in Jobs |-> {}]
    /\ parallel \in BOOLEAN
    /\ maxjobs \in {0, 1}
    /\ semaphore = NewSemaphore(maxjobs)
    /\ InitGridRunner
    /\ repeat = DefaultRepeat /\ InitSaferun
    /\ NoAutodetect

NextGrid ==
    \/ \E j \in Callers : \E id \in {j, None} : Submit(j, id)
    \/ \E j \in Callers : RegisterId(j)
    \/ \E j \in Callers : Trigger(j)
    \/ \E j \in Callers : Polled(j)
    \/ \E j \in Callers : Return(j)
    \/ \E p \in Callers : Acquire(p)
    \/ \E p \in Callers : Snapshot(p)
    \/ \E p \in Callers : Check(p)
    \/ \E p \in Callers : Process(p)
    \/ \E p \in Callers : Release(p)
    \/ \E id \in Callers : JobEnds(id)

SpecGrid == InitGrid /\ [][NextGrid]_vars

\* ------------------------------------------------ GridRunner(grid='auto')

\* What saferun([submit, '--version']) does for a profile on this system: the
\* command is not there (FileNotFoundError), it cannot be started for lack of
\* resources on every attempt (BlockingIOError), or it runs and exits with
\* code 0 or with another code.
Outcomes == {"missing", "busy", "zero", "nonzero"}

\* The probe raises an OSError: both errors are subclasses of it.
raises_OSError(o) == o \in {"missing", "busy"}

\* process.returncode of a probe that ran.
returncode(o) == IF o = "zero" THEN 0 ELSE 1

\* A test of the probe that takes every command that ran.
detected_any_exit(o) == ~raises_OSError(o)

\* _autodetect's test of one profile: the probe did not raise OSError and
\* process.returncode == 0.
detected(o) == ~raises_OSError(o) /\ returncode(o) = 0

\* One iteration of `for grid in config.gridrunner`.
AutodetectProbe ==
    /\ ctor = "detect" /\ grid <= Len(gridrunner)
    /\ probed' = probed \cup {grid}
    /\ IF detected(gridrunner[grid])
       THEN /\ settings' = grid
            /\ ctor' = "done"
            /\ UNCHANGED grid
       ELSE /\ grid' = grid + 1
            /\ UNCHANGED <<settings, ctor>>
    /\ UNCHANGED <<jmvars, jobvars, pc, raised, prev, runvars, gridvars, safevars,
                   gridrunner>>

\* The loop is over: raise PlamsError('GridRunner: Failed to autodetect grid type').
AutodetectFail ==
    /\ ctor = "detect" /\ grid > Len(gridrunner)
    /\ ctor' = "raised"
    /\ UNCHANGED <<jmvars, jobvars, pc, raised, prev, runvars, gridvars, safevars,
                   gridrunner, grid, probed, settings>>

\* GridRunner(grid='auto') on a system with up to NProfiles profiles configured.
InitDetect ==
    /\ counter_len = 3
    /\ jobfolder_exists = "None"
    /\ remove_empty_directories = TRUE
    /\ fs = (workdir :> {})
    /\ finished = FALSE
    /\ load_ret = NotReturned
    /\ InitJobs
    /\ parallel = TRUE /\ maxjobs = 0 /\ semaphore = NoSemaphore
    /\ InitGridRunner
    /\ repeat = DefaultRepeat
    /\ attempt = [j \in Jobs |-> 0]
    /\ last_error = [j \in Jobs |-> "None"]
    /\ nruns = [j \in Jobs |-> 0]
    /\ sleeps = [j \in Jobs |-> 0]
    /\ gridrunner \in UNION {[1..n -> Outcomes] : n \in 0..NProfiles}
    /\ grid = 1
    /\ probed = {}
    /\ settings = None
    /\ ctor = "detect"

NextDetect == AutodetectProbe \/ AutodetectFail

SpecDetect == InitDetect /\ [][NextDetect]_vars

\* ================================================================ claims

\* A step in which _register runs for job j, and one in which _check_hash does.
RegisterStep(j) == pc[j] = "new" /\ pc'[j] # "new"
CheckHashStep(j) == pc[j] = "registered" /\ pc'[j] = "hashed"

\* The jobs the manager has registered (removed ones included).
Registered == {j \in Jobs : status[j] = "registered"}

\* C1 (as stated): the k-th job (k >= 2) registered under a base name X is
\* named X.<k-1>, the number zero-padded to counter_len; names[X] holds the
\* k-1 registrations made so far.
C1_SuffixCountsFromOne ==
    [][\A j \in Jobs :
        RegisterStep(j) /\ name[j] \in DOMAIN names =>
            name'[j] = name[j] \o "." \o zfill(Str(names[name[j]]), counter_len)]_vars

\* C1 (amended): the first job registered under a base name X keeps the name
\* X, and the k-th (k >= 2) is named X.<k>, the number zero-padded to
\* counter_len: "calc", "calc.002", "calc.003".
C1_SuffixIsRegistrationCount ==
    [][\A j \in Jobs :
        RegisterStep(j) =>
            /\ name[j] \notin DOMAIN names =>
                   name'[j] = name[j] /\ names'[name[j]] = 1
            /\ name[j] \in DOMAIN names =>
                   /\ names'[name[j]] = names[name[j]] + 1
                   /\ name'[j] = name[j] \o "." \o
                                 zfill(Str(names'[name[j]]), counter_len)
                   /\ Len(name'[j]) >= Len(name[j]) + 1 + counter_len]_vars

\* Three jobs named "X" registered in a row on a manager of counter width 3.
C1_Witness ==
    /\ counter_len = 3 /\ Len(jobs) = 3
    /\ name[jobs[1]] = "X" /\ name[jobs[2]] = "X.002" /\ name[jobs[3]] = "X.003"

\* C2: no two jobs registered in the manager have the same name.
C2_UniqueNames ==
    \A i, j \in Registered : i # j => name[i] # name[j]

\* C3: a job has no path before it is registered, its path is assigned once,
\* by _register, as the parent's path (else the workdir) joined with the
\* job's name, and no two registered jobs have the same path.
C3_PathOnceAndUnique ==
    /\ [](\A j \in Jobs : pc[j] \in {"none", "new"} => path[j] = NoPath)
    /\ [][\A j \in Jobs : path[j] # NoPath => path'[j] = path[j]]_vars
    /\ [][\A j \in Jobs : RegisterStep(j) =>
            path'[j] = opj(IF parent[j] # None THEN path[parent[j]] ELSE workdir,
                           name'[j])]_vars
    /\ [](\A i, j \in Registered : i # j => path[i] # path[j])

\* C5: _check_hash(job) with digest None returns None and leaves hashes as it
\* is; with a digest that is a key of hashes it returns the job stored there
\* and leaves hashes as it is; otherwise it returns None and adds the one
\* entry digest -> job.
C5_CheckHash ==
    [][\A j \in Jobs :
        CheckHashStep(j) =>
            LET h == digest[j]
            IN  /\ h = NoDigest => prev'[j] = None /\ hashes' = hashes
                /\ h # NoDigest /\ h \in DOMAIN hashes =>
                       prev'[j] = hashes[h] /\ hashes' = hashes
                /\ h # NoDigest /\ h \notin DOMAIN hashes =>
                       /\ prev'[j] = None
                       /\ DOMAIN hashes' = DOMAIN hashes \cup {h}
                       /\ hashes'[h] = j
                       /\ \A k \in DOMAIN hashes : hashes'[k] = hashes[k]]_vars

\* A miss stored next to another entry, then a hit on it, then a job without
\* a digest.
C5_Witness ==
    \E a, b, c \in Jobs :
        /\ pc[a] = "hashed" /\ prev[a] = None /\ digest[a] # NoDigest
        /\ digest[a] \in DOMAIN hashes /\ hashes[digest[a]] = a
        /\ Cardinality(DOMAIN hashes) = 2
        /\ pc[b] = "hashed" /\ prev[b] = a
        /\ c # b /\ pc[c] \in {"hashed", "loaded"} /\ c # a

\* C6: once a digest is a key of hashes, the job stored under it changes only
\* by the entry being removed.
C6_NeverOverwritten ==
    [][\A h \in DOMAIN hashes :
        h \in DOMAIN hashes' => hashes'[h] = hashes[h]]_vars

\* The jobs whose call is past the gate, with a process in flight.
InCall == {j \in Jobs : pc[j] = "call"}

\* Job b has had its hash checked in a run that began after job a, of the
\* same digest, had completed.
RunAfter(a, b) ==
    /\ a \in done_at_start[b]
    /\ digest[b] # NoDigest /\ digest[a] = digest[b]
    /\ pc[b] \in {"miss", "gate", "call", "finalize", "done"}

Stored(h) ==
    {k \in Jobs : digest[k] = h /\ prev[k] = None
                  /\ pc[k] \in {"gate", "call", "finalize", "done"}}

C7_BoundedCalls ==
    /\ maxjobs > 0 =>
           /\ Cardinality(InCall) <= maxjobs
           /\ semaphore = maxjobs - Cardinality(InCall)
    /\ \A j \in Jobs :
           /\ pc[j] = "registered" => ENABLED PrepareLookup(j)
           /\ pc[j] = "miss" => ENABLED PrepareStore(j)
           /\ pc[j] = "finalize" => ENABLED Finalize(j, "ok")

\* The gate is full with a job waiting at it, while another job prepares.
C7_Witness ==
    \E a, b, c \in Jobs :
        /\ parallel /\ maxjobs = 1 /\ semaphore = 0
        /\ pc[a] = "call" /\ pc[b] = "gate" /\ pc[c] \in {"registered", "miss"}

\* The _check_queue calls that hold _mainlock: in the loop, or past its
\* `return` and before the release.
Holding == {p \in Callers : ppc[p] \in {"snapshot", "check", "process", "release"}}

\* C8: at most one thread executes the poll loop at any time, those that do
\* hold _mainlock, and a _check_queue that finds the lock held returns at once:
\* it copies nothing, asks the scheduler nothing, releases nobody, and stays
\* returned.
C8_SinglePollLoop ==
    /\ [](/\ Cardinality(Holding) <= 1
          /\ _mainlock <=> Holding # {})
    /\ [][\A p \in Callers :
            /\ ppc[p] = "acquire" /\ _mainlock /\ ppc'[p] # "acquire" =>
                   /\ ppc'[p] = "skipped"
                   /\ UNCHANGED <<_active_jobs, event, _mainlock, active_jobs,
                                  running_jobs, queue, polls>>
            /\ ppc[p] = "skipped" => ppc'[p] = "skipped"]_vars

\* C8 witness: one _check_queue is in the loop and another has returned
\* without the lock.
C8_Witness ==
    \E p, q \in Callers : p \in InLoop /\ ppc[q] = "skipped"

\* A _check_queue call that is going to look at the registered ids again.
Polling(p) == ppc[p] \in {"acquire", "snapshot", "check", "process"}

\* C9: a call whose submit gave an id returns 0, and only after the id's
\* event was set; once the scheduler no longer lists the id, no more than two
\* status checks are made before the id is released, and while the call still
\* waits for it some _check_queue is at work or about to be; when every call
\* has returned, _active_jobs is empty.
C9_ReleasedWithinTwoPolls ==
    /\ \A j \in Callers :
        /\ polls[j] <= 2
        /\ jobid[j] # None /\ pc[j] = "returned" =>
               retcode[j] = 0 /\ jobid[j] \in event
        /\ pc[j] = "wait" /\ jobid[j] \notin queue /\ jobid[j] \notin event =>
               \E p \in Callers : Polling(p)
    /\ (\A j \in Callers : pc[j] = "returned") => _active_jobs = {}

\* C10: when getid gives None, call returns 1 at once: one submit command was
\* run, the call never waits, no id of it is in _active_jobs and no
\* _check_queue was started for it.
C10_SubmitFailureReturnsOne ==
    /\ \A j \in Callers :
        /\ submits[j] <= 1
        /\ pc[j] # "gate" /\ jobid[j] = None =>
               /\ pc[j] = "returned" /\ retcode[j] = 1
               /\ submits[j] = 1
               /\ ppc[j] = "none"
    /\ None \notin _active_jobs
    /\ _active_jobs \subseteq {jobid[j] : j \in Callers}

\* C10 witness: one call has returned 1 for want of an id while another,
\* whose submit gave one, waits for its event.
C10_Witness ==
    \E j, k \in Callers :
        /\ jobid[j] = None /\ retcode[j] = 1
        /\ pc[k] = "wait" /\ jobid[k] \in _active_jobs

\* C11: with retry limit R >= 0, a saferun whose subprocess.run raises the
\* transient error k <= R times and then succeeds returns after exactly k+1
\* attempts (and after any k <= R failures the next attempt is made, so it can
\* succeed); one whose every attempt raises it makes exactly R+1 attempts and
\* then raises the last transient error.
C11_SaferunAttempts ==
    \A j \in Jobs :
        /\ pc[j] = "call" =>
               /\ nruns[j] = attempt[j] /\ attempt[j] <= repeat + 1
               /\ attempt[j] <= repeat => ENABLED CallReturn(j)
        /\ pc[j] = "finalize" =>
               attempt[j] <= repeat /\ nruns[j] = attempt[j] + 1
        /\ pc[j] = "aborted" /\ caught(raised[j]) =>
               /\ nruns[j] = repeat + 1 /\ attempt[j] = repeat + 1
               /\ raised[j] = last_error[j]

\* C11 witness: with retry limit 3, one saferun returned on its third attempt
\* after two transient errors, and another raised after four attempts.
C11_Witness ==
    /\ repeat = 3
    /\ \E j, k \in Jobs :
        /\ pc[j] = "finalize" /\ attempt[j] = 2 /\ nruns[j] = 3
        /\ pc[k] = "aborted" /\ raised[k] = "BlockingIOError" /\ nruns[k] = 4

\* C12: an exception of subprocess.run other than the transient error leaves
\* saferun at once, whatever the retry limit and however many transient errors
\* came before: the attempt that raised it is the last one, no delay follows
\* it, and saferun never keeps it as last_error.
C12_OtherExceptionPropagates ==
    /\ [](\A j \in Jobs :
            /\ last_error[j] \in {"None", "BlockingIOError"}
            /\ raised[j] = "OSError" =>
                   /\ pc[j] = "aborted"
                   /\ nruns[j] = attempt[j] + 1 /\ sleeps[j] = attempt[j])
    /\ [][\A j \in Jobs :
            /\ raised[j] # "OSError" /\ raised'[j] = "OSError" =>
                   /\ nruns'[j] = nruns[j] + 1
                   /\ sleeps'[j] = sleeps[j] /\ attempt'[j] = attempt[j]
            /\ raised[j] = "OSError" =>
                   /\ nruns'[j] = nruns[j] /\ sleeps'[j] = sleeps[j]
                   /\ raised'[j] = raised[j]]_vars

\* C12 witness: with retry limit 3, subprocess.run raised another exception
\* on the third attempt, after two transient errors.
C12_Witness ==
    /\ repeat = 3
    /\ \E j \in Jobs :
        /\ raised[j] = "OSError" /\ attempt[j] = 2 /\ nruns[j] = 3

\* C13: load_job on an existing snapshot file that fails to deserialize can
\* always be made, returns None without raising, and leaves the manager's
\* jobs, names and hashes (and every job and folder) exactly as they were, so
\* that every load that could be made before it can be made after it.
C13_CorruptedLoadSkipped ==
    \A d \in DOMAIN fs : \A file \in fs[d] \cap SnapshotFiles :
        Idle /\ ~Pickled(file).ok =>
            /\ ENABLED LoadJob(d, file)
            /\ ~ENABLED (/\ LoadJob(d, file)
                         /\ ~(/\ load_ret' = None
                              /\ UNCHANGED <<jobs, names, hashes, fs, jobvars,
                                             pc, raised, prev, finished>>))

\* C13 witness: a load has just returned None in a manager that holds a
\* registered job and a digest, with a valid snapshot still to be loaded.
C13_Witness ==
    /\ load_ret = None
    /\ jobs # <<>> /\ DOMAIN hashes # {}
    /\ \E d \in DOMAIN fs : ENABLED LoadJob(d, "X.dill")

\* The jobs a load_job step has made: the job it returns and its children.
LoadedKids == {c \in Jobs : status[c] = "none" /\ parent'[c] = load_ret'}

\* After a load_job step of the file `file` of directory d: the returned job
\* and its children are new job objects with the persisted names and
\* digests, the job's path is d and a child's path is the job's path joined
\* with the child's name, a child's parent is the job, and all of them have
\* the loading manager as jobmanager.
LoadRestored(d, file) ==
    LET snap == Pickled(file)
        j == load_ret'
    IN  /\ j \in Jobs /\ status[j] = "none"
        /\ name'[j] = snap.name /\ digest'[j] = snap.digest
        /\ path'[j] = d /\ jobmanager'[j] /\ parent'[j] = None
        /\ Cardinality(LoadedKids) = Len(snap.children)
        /\ \A k \in 1..Len(snap.children) : \E c \in LoadedKids :
               /\ name'[c] = snap.children[k].name
               /\ digest'[c] = snap.children[k].digest
        /\ \A c \in LoadedKids :
               /\ path'[c] = opj(path'[j], name'[c])
               /\ jobmanager'[c]

\* x is stored by setstate after c: the children in order, then the job.
StoredLater(c, x) ==
    \/ x = load_ret' /\ c # x
    \/ c # load_ret' /\ x # load_ret' /\ x > c

\* A valid snapshot file that can be loaded now.
Loadable(d, file) ==
    /\ Idle /\ exists(fs, d) /\ file \in fs[d]
    /\ Pickled(file).ok
    /\ Cardinality(Free) >= Len(Pickled(file).children) + 1

Under(f, p) == {r \in DOMAIN f : IsPrefix(p, r)}
Below(f, p) == Under(f, p) \ {p}

\* _register runs for job j and finds a directory at the job's path.
Collision(j) == RegisterStep(j) /\ path'[j] \in DOMAIN fs

\* The smallest positive N for which p.old<N> does not exist.
SmallestUnused(f, p) ==
    CHOOSE n \in 1..(Cardinality(DOMAIN f) + 1) :
        /\ PathPlus(p, ".old" \o Str(n)) \notin DOMAIN f
        /\ \A m \in 1..(n - 1) : PathPlus(p, ".old" \o Str(m)) \in DOMAIN f

\* C15: when _register finds a directory at the job's path and the policy is
\* error, it raises PlamsError and the directories and their contents are
\* exactly as they were; the job is not registered.
C15_ErrorPolicyLeavesFolder ==
    [][\A j \in Jobs :
        Collision(j) /\ jobfolder_exists = "None" =>
            /\ raised'[j] = "PlamsError"
            /\ fs' = fs
            /\ jobs' = jobs /\ status'[j] = status[j]]_vars

\* C15 witness: the policy is error and a job's registration has raised
\* PlamsError on a folder that holds files and a subfolder.
C15_Witness ==
    \E j \in Jobs :
        /\ jobfolder_exists = "None" /\ raised[j] = "PlamsError"
        /\ path[j] \in DOMAIN fs /\ fs[path[j]] # {} /\ Below(fs, path[j]) # {}

\* C16: when _register finds a directory at the job's path and the policy is
\* rename, the directory and everything in it is at <path>.old<N> afterwards,
\* N the smallest positive integer whose <path>.old<N> did not exist; every
\* other directory (each existing .old<k> among them) is as it was, and
\* <path> is a new empty directory of a registered job.
C16_RenamePolicyMovesAside ==
    [][\A j \in Jobs :
        Collision(j) /\ jobfolder_exists = "rename" =>
            LET p == path'[j]
                np == PathPlus(p, ".old" \o Str(SmallestUnused(fs, p)))
                Moved(r) == np \o SubSeq(r, Len(p) + 1, Len(r))
            IN  /\ raised'[j] = "None" /\ status'[j] = "registered"
                /\ np \notin DOMAIN fs
                /\ \A r \in Under(fs, p) :
                       Moved(r) \in DOMAIN fs' /\ fs'[Moved(r)] = fs[r]
                /\ \A q \in DOMAIN fs \ Under(fs, p) :
                       q \in DOMAIN fs' /\ fs'[q] = fs[q]
                /\ p \in DOMAIN fs' /\ fs'[p] = {} /\ Below(fs', p) = {}
                /\ DOMAIN fs' = (DOMAIN fs \ Under(fs, p))
                                  \cup {Moved(r) : r \in Under(fs, p)} \cup {p}]_vars

\* C16 witness: under the rename policy the folder X with its subfolder is
\* now X.old2 beside the older X.old1, and X is the new job's empty folder.
C16_Witness ==
    \E j \in Jobs :
        /\ jobfolder_exists = "rename" /\ status[j] = "registered"
        /\ path[j] = opj(workdir, "X") /\ fs[path[j]] = {}
        /\ opj(workdir, "X.old1") \in DOMAIN fs
        /\ fs[opj(workdir, "X.old1")] = {"X.in"}
        /\ opj(workdir, "X.old2") \in DOMAIN fs
        /\ fs[opj(workdir, "X.old2")] = {"X.out"}
        /\ opj(opj(workdir, "X.old2"), "sub") \in DOMAIN fs

\* C17: when _register finds a directory at the job's path and the policy is
\* remove, the directory and everything below it is gone afterwards and the
\* path is a new empty directory of a registered job; every other directory
\* is as it was.
C17_RemovePolicyDeletes ==
    [][\A j \in Jobs :
        Collision(j) /\ jobfolder_exists = "remove" =>
            LET p == path'[j]
            IN  /\ raised'[j] = "None" /\ status'[j] = "registered"
                /\ p \in DOMAIN fs' /\ fs'[p] = {} /\ Below(fs', p) = {}
                /\ DOMAIN fs' = (DOMAIN fs \ Under(fs, p)) \cup {p}
                /\ \A q \in DOMAIN fs \ Under(fs, p) : fs'[q] = fs[q]]_vars

\* C17 witness: under the remove policy a job is registered on the path X,
\* whose folder held files and a subfolder: X is empty and has no subfolder.
C17_Witness ==
    \E j \in Jobs :
        /\ jobfolder_exists = "remove" /\ status[j] = "registered"
        /\ path[j] = opj(workdir, "X") /\ fs[path[j]] = {}
        /\ Below(fs, path[j]) = {}
        /\ opj(workdir, "X.old1") \in DOMAIN fs
        /\ names = ("X" :> 1)

\* What remove_job(j) has to leave: jobs without j and otherwise in order,
\* the entry of j's digest gone exactly when it referred to j, every other
\* entry as it was.
Removed(j) ==
    /\ jobs' = SelectSeq(jobs, LAMBDA x : x # j)
    /\ DOMAIN hashes' \subseteq DOMAIN hashes
    /\ \A h \in DOMAIN hashes :
           IF h = digest[j] /\ hashes[h] = j
           THEN h \notin DOMAIN hashes'
           ELSE h \in DOMAIN hashes' /\ hashes'[h] = hashes[h]

\* C18: remove_job(job) takes the job out of jobs, deletes the hashes entry
\* of the job's digest if and only if that entry refers to this job, and
\* leaves an entry of the same digest that refers to another job, and every
\* entry of another digest, as it was.
C18_RemoveJobFrame ==
    \A j \in Jobs : ~ENABLED (RemoveJob(j) /\ ~Removed(j))

\* C18 witness: job b has been removed while the entry of its digest refers
\* to job a: a is still registered, the entry still refers to a, and an
\* entry of another digest is still there.
C18_Witness ==
    \E a, b \in Jobs :
        /\ a # b /\ pc[b] = "hashed" /\ ~jobmanager[b] /\ ~InSeq(jobs, b)
        /\ digest[b] \in DOMAIN hashes /\ hashes[digest[b]] = a
        /\ InSeq(jobs, a)
        /\ \E h \in DOMAIN hashes : h # digest[b]

\* The statuses a job ends in.
Terminal == {"ok", "failed", "crashed"}

\* C19: a job's status changes only from created to registered, from
\* registered to running and from running to ok, failed or crashed; it
\* becomes registered only in the step in which _register runs for the job,
\* which is the step that assigns its name and path and appends it to jobs,
\* and only from created; a status of ok, failed or crashed never changes.
C19_StatusChain ==
    [][\A j \in Jobs :
        /\ status'[j] # status[j] =>
               \/ status[j] = "none" /\ status'[j] = "created"
               \/ status[j] = "created" /\ status'[j] = "registered"
               \/ status[j] = "registered" /\ status'[j] = "running"
               \/ status[j] = "running" /\ status'[j] \in Terminal
        /\ status'[j] = "registered" /\ status[j] # "registered" =>
               /\ status[j] = "created" /\ RegisterStep(j)
               /\ path[j] = NoPath /\ path'[j] # NoPath
               /\ name'[j] = _register_name(names, name[j], counter_len).name
               /\ jobs' = Append(jobs, j)
        /\ RegisterStep(j) /\ raised'[j] = "None" => status'[j] = "registered"
        /\ status[j] \in Terminal => status'[j] = status[j]]_vars

\* C19 witness: one job has gone through the whole chain and ended ok,
\* another has ended failed, and a third is running; each was registered.
C19_Witness ==
    \E a, b, c \in Jobs :
        /\ status[a] = "ok" /\ status[b] = "failed" /\ status[c] = "running"
        /\ InSeq(jobs, a) /\ InSeq(jobs, b) /\ InSeq(jobs, c)
        /\ path[a] # NoPath /\ pc[a] = "done"

\* C20: an exception raised in a job's prepare, execute or finalize (the
\* last BlockingIOError of a saferun that used up its retries included) does
\* not leave _run_job, and the job's status is crashed.
C20_ExceptionsEndCrashed ==
    \A j \in Jobs :
        raised[j] # "None" => status[j] = "crashed" /\ pc[j] # "aborted"

\* The command of profile i is found on the system: it could be run.
Found(i) == gridrunner[i] \in {"zero", "nonzero"}

\* The profiles before i, in the order of the iteration.
Before(i) == 1..(i - 1)

InPrepare(j) == pc[j] \in {"registered", "miss"}
InExecute(j) == pc[j] \in {"gate", "call"}
InFinalize(j) == pc[j] = "finalize"
Over(j) == pc[j] \in {"done", "aborted"}

\* C22: _run_job begins with the job's _prepare; _execute begins only in the
\* step in which _prepare returns True (no earlier job was found for the
\* digest), _finalize only in the step in which call, and with it _execute,
\* returns; when _prepare returns False on a cache hit the run is over, with
\* no call made and no status set by _finalize; a run that is over stays
\* over. The runner may be serial or parallel.
C22_PrepareExecuteFinalize ==
    [][\A j \in Jobs :
        /\ pc[j] = "new" /\ pc'[j] # "new" => InPrepare(j)' \/ pc'[j] = "aborted"
        /\ InExecute(j)' /\ ~InExecute(j) =>
               /\ pc[j] = "miss" /\ prev[j] = None /\ calls[j] = 0
               /\ raised[j] = "None"
        /\ InFinalize(j)' /\ ~InFinalize(j) =>
               /\ pc[j] = "call" /\ nruns'[j] = nruns[j] + 1
               /\ raised'[j] = "None"
        /\ InPrepare(j) /\ prev'[j] # None =>
               /\ Over(j)' /\ calls'[j] = 0 /\ status'[j] = "registered"
        /\ status'[j] # status[j] /\ status'[j] \in Terminal => InFinalize(j)
        /\ Over(j) => /\ Over(j)' /\ calls'[j] = calls[j]
                      /\ status'[j] = status[j]]_vars

\* C22 witness: a parallel runner with one job through _prepare, _execute and
\* _finalize, a second whose _prepare found the first and returned False, with
\* no call made for it, and a third whose _prepare raised, never executed.
C22_Witness ==
    \E a, b, c \in Jobs :
        /\ parallel
        /\ pc[a] = "done" /\ status[a] \in {"ok", "failed"} /\ calls[a] = 1
        /\ pc[b] = "done" /\ prev[b] = a /\ calls[b] = 0
        /\ status[b] = "registered"
        /\ pc[c] = "aborted" /\ calls[c] = 0 /\ status[c] = "created"

\* C23: a _check_queue leaves its loop exactly in the iteration after whose
\* processing _active_jobs is empty; having left it, it releases _mainlock;
\* and the trigger of a job submitted when no _check_queue is in the loop
\* any more gets the lock and starts a new loop.
C23_LoopExitsAndRestarts ==
    /\ [][\A p \in Callers :
            /\ ppc[p] = "process" /\ ppc'[p] # "process" =>
                   (ppc'[p] = "release" <=> _active_jobs' = {})
            /\ ppc'[p] = "release" => ppc[p] \in {"process", "release"}
            /\ ppc[p] = "release" /\ ppc'[p] # "release" =>
                   ppc'[p] = "done" /\ ~_mainlock']_vars
    /\ [][\A p \in Callers :
            ppc[p] = "acquire" /\ ppc'[p] # "acquire" /\ InLoop = {} =>
                ppc'[p] = "snapshot" /\ _mainlock']_vars

\* A step in which remove_job runs for job j, a job of this manager's list.
RemoveStep(j) == InSeq(jobs, j) /\ jobmanager[j] /\ ~jobmanager'[j]

\* C24 (as stated): jobs is append-only: every step leaves it as it is or
\* appends one job at its end, a registration appends the job, and no step,
\* a removal included, deletes or moves an element.
C24_JobsAppendOnly ==
    [][/\ Len(jobs') >= Len(jobs)
       /\ SubSeq(jobs', 1, Len(jobs)) = jobs
       /\ \A j \in Jobs :
              RegisterStep(j) /\ raised'[j] = "None" => jobs' = Append(jobs, j)]_vars

\* C24 (amended): jobs is in registration order: a registration appends the
\* job at the end, remove_job(job) takes that job out and leaves the others
\* in their order, and every other step leaves jobs as it is.
C24_JobsInRegistrationOrder ==
    [][/\ \A j \in Jobs :
              /\ RegisterStep(j) /\ raised'[j] = "None" => jobs' = Append(jobs, j)
              /\ RemoveStep(j) =>
                     /\ jobs' = SelectSeq(jobs, LAMBDA x : x # j)
                     /\ Len(jobs') = Len(jobs) - 1
       /\ jobs' # jobs =>
              \E j \in Jobs : RemoveStep(j) \/ (RegisterStep(j) /\ raised'[j] = "None")]_vars

\* C24 witness: three jobs were registered in turn and the second was
\* removed: the first and the third are left, in that order.
C24_Witness ==
    \E a, b, c \in Jobs :
        /\ jobs = <<a, c>> /\ a # c
        /\ pc[b] = "hashed" /\ ~jobmanager[b] /\ status[b] = "registered"
        /\ path[a] # NoPath /\ path[b] # NoPath /\ path[c] # NoPath
        /\ name[a] = "X" /\ name[b] = "X.002" /\ name[c] = "X.003"

\* C25: every entry hashes[h] refers to a job whose digest is h and whose run
\* is being executed or finalized or has completed; never to a job that was
\* not run or whose run was abandoned.
C25_HashesHoldRunJobs ==
    \A h \in DOMAIN hashes :
        /\ digest[hashes[h]] = h
        /\ InExecute(hashes[h]) \/ InFinalize(hashes[h]) \/ Completed(hashes[h])

\* Job a is between the lookup and the store of its _check_hash, and nothing
\* is stored under its digest, which job b has too.
BetweenCheckAndInsert(a, b) ==
    /\ a # b /\ pc[a] = "miss"
    /\ digest[a] # NoDigest /\ digest[b] = digest[a]
    /\ digest[a] \notin DOMAIN hashes

\* C26: in parallel mode, while a job is between the lookup and the store of
\* _check_hash, the run of another job with the same digest can begin in its
\* own thread, its lookup can run and finds nothing, and then both jobs can
\* go on as cache misses to the store and to execution.
C26_CheckHashNotAtomic ==
    \A a, b \in Jobs :
        parallel /\ BetweenCheckAndInsert(a, b) =>
            /\ pc[b] = "new" => ENABLED RunJob(b)
            /\ pc[b] = "registered" =>
                   ENABLED (PrepareLookup(b) /\ prev'[b] = None /\ pc'[b] = "miss")
            /\ pc[b] = "miss" =>
                   /\ prev[a] = None /\ prev[b] = None
                   /\ ENABLED PrepareStore(a) /\ ENABLED PrepareStore(b)

\* C26 witness: in parallel mode two jobs of the same digest have both had
\* None from _check_hash, and call was made for both.
C26_Witness ==
    \E a, b \in Jobs :
        /\ a # b /\ parallel
        /\ digest[a] # NoDigest /\ digest[a] = digest[b]
        /\ prev[a] = None /\ prev[b] = None
        /\ calls[a] = 1 /\ calls[b] = 1
        /\ Completed(a) /\ Completed(b)

\* C27: whenever _active_jobs is not empty, a _check_queue is inside the loop
\* and will make another status check, or a _check_queue that was triggered
\* has its try of _mainlock still to come, or a call that has entered its id
\* is about to trigger one; so no call is left waiting for an id that nobody
\* is going to check.
C27_NoLostWakeup ==
    _active_jobs # {} =>
        \/ InLoop # {}
        \/ \E p \in Callers : ppc[p] = "acquire"
        \/ \E j \in Callers : pc[j] = "trigger"

\* The ids the iteration of _check_queue call p is to release: those it
\* copied before its status check that the check did not report.
ToRelease(p) == active_jobs[p] \ running_jobs[p]

\* A step in which _check_queue call p processes the result of its check.
ProcessStep(p) == ppc[p] = "process" /\ ppc'[p] # "process"

\* C28: an id's event is set, and the id deleted from _active_jobs, only in
\* the processing step of a poll iteration that had copied the id before its
\* status check, which did not report it; the copy is made before the check
\* and neither changes until the processing; an id entered in _active_jobs
\* after the copy is neither signalled nor deleted by that iteration; and
\* every id an iteration is to release is in _active_jobs.
C28_OnlySnapshotIdsReleased ==
    /\ [][\A id \in Callers :
            (id \in event' \ event) \/ (id \in _active_jobs \ _active_jobs') =>
                \E p \in Callers :
                    /\ ProcessStep(p) /\ id \in ToRelease(p)
                    /\ id \in _active_jobs /\ id \notin _active_jobs'
                    /\ id \in event']_vars
    /\ [][\A p \in Callers :
            /\ ProcessStep(p) =>
                   \A id \in _active_jobs \ active_jobs[p] :
                       id \in _active_jobs' /\ (id \in event' <=> id \in event)
            /\ ppc'[p] = "check" /\ ppc[p] # "check" =>
                   ppc[p] = "snapshot" /\ active_jobs'[p] = _active_jobs
            /\ ppc'[p] = "process" /\ ppc[p] # "process" =>
                   /\ ppc[p] = "check" /\ running_jobs'[p] = queue
                   /\ active_jobs'[p] = active_jobs[p]]_vars
    /\ [](\A p \in Callers : ppc[p] = "process" => ToRelease(p) \subseteq _active_jobs)

\* C28 witness: an iteration has copied id 1, made its check, which reported
\* neither 1 nor 2, and processed it: 1 is signalled; id 2, entered after the
\* copy, is still in _active_jobs and not signalled, though its job has ended.
C28_Witness ==
    \E p \in Callers : \E a, b \in Callers :
        /\ ppc[p] = "snapshot" /\ active_jobs[p] = {a} /\ running_jobs[p] = {}
        /\ a \in event /\ a \notin _active_jobs
        /\ b # a /\ b \in _active_jobs /\ b \notin event /\ b \notin queue
        /\ pc[b] \in {"trigger", "wait"}

\* A job that load_job restored, as the returned job or as one of its children.
Loaded(j) == pc[j] = "loaded"

C30_AbortedRegisterNoEffect ==
    [][\A j \in Jobs :
        RegisterStep(j) /\ raised'[j] = "PlamsError" =>
            /\ jobs' = jobs /\ names' = names /\ hashes' = hashes
            /\ name'[j] = name[j] /\ path'[j] = path[j]
            /\ status'[j] = status[j] /\ status'[j] # "registered"]_vars

====
